---- MODULE Spec2Model ----
(***************************************************************************)
(* Camera focus transition of the 3D solar system simulation               *)
(* (src/script.js).  A click on a planet or the reset button stores a      *)
(* target pose and raises isCameraFocusing; every animation frame moves    *)
(* the camera and the OrbitControls target 5% of the way to the target,    *)
(* lets OrbitControls re-position the camera, and snaps to the target when *)
(* both distances are below 0.1.                                           *)
(*                                                                         *)
(* Coordinates are fixed-point integers: one world unit is Scale model     *)
(* units.  NotANumber stands for the IEEE value NaN.                       *)
(*                                                                         *)
(* Around the camera the module follows the page: the availability check  *)
(* of initializeSimulationWhenReady, the texture loads of the              *)
(* LoadingManager, the planet speed sliders, _toggleAnimation and the      *)
(* requestAnimationFrame callbacks that run animate.                       *)
(* The orbits of the planets are followed in SpecPlanets, which applies    *)
(* _updatePlanetPositions to drawn inputs; the other specifications hold   *)
(* them at the values they have when the planets are created.              *)
(***************************************************************************)
EXTENDS Integers, Naturals, Sequences, FiniteSets, TLC

VARIABLES
    cameraPosition,        \* camera.position
    controlsTarget,        \* orbitControls.target (the look-at point)
    cameraTargetPosition,  \* cameraTargetPosition
    cameraTargetLookAt,    \* cameraTargetLookAt
    isCameraFocusing,      \* isCameraFocusing
    focusSpeed,            \* SCENE_CONSTANTS.CAMERA_FOCUS_SPEED as num/den
    lastEvent,             \* history: the handler that ran last
    lastHit,               \* history: the planet hit of the last planet click
    lastRequest,           \* history: "none", "issued", or "stopped" by a click
    retargeted,            \* history: the last request replaced another target
    discarded,             \* history: the target that request replaced
    epoch,                 \* history: flips on every click event
    age,                   \* history: frames since the last click (saturating)
    interrupts,            \* history: clicks that arrived while focusing
    repeated,              \* history: the last request repeated the active one
    rendered,              \* history: the pose of the last renderer.render
    frameSteps,            \* history: the steps the last call of animate ran
    frameBodies,           \* history: calls of animate made by the last event
    isPaused,              \* isPaused
    animationFrameId,      \* animationFrameId: "null" or a pending request
    pendingFrames,         \* requestAnimationFrame callbacks not yet run
    starfieldPending,      \* the background texture is still loading
    bodyTexturesPending,   \* body and ring textures still loading
    errorReported,         \* loadingManager.onError has been called
    planets,               \* names of the entries of the planets array
    sliderListeners,       \* planets whose slider has an input listener
    orbitalSpeedFactor,    \* planet.orbitalSpeedFactor, by planet name
    lastSlider,            \* history: planet and value of the last slider input
    threeAvailable,        \* typeof THREE !== 'undefined'
    orbitControlsAvailable,\* typeof THREE.OrbitControls !== 'undefined'
    scriptState,           \* script.js: "pending", "aborted" or "evaluated"
    windowLoaded,          \* the load event of the window has fired
    retryPending,          \* a setTimeout of initializeSimulationWhenReady
    instances,             \* SolarSystemSimulation objects constructed
    retries,               \* history: retries scheduled so far (saturating)
    failures,              \* history: failures of a handler so far
    beforeToggle,          \* history: isPaused and the pending frame requests
                           \*          before the last _toggleAnimation
    globalSpeedFactor,     \* globalSpeedFactor, in hundredths
    currentAngle,          \* planet.currentAngle, by planet name
    orbitPosition,         \* planet.orbitGroup.position, in polar form
    meshRotation,          \* planet.mesh.rotation.y, by planet name
    sunRotation,           \* sunMesh.rotation.y
    lastDelta              \* history: deltaTime of the last planet update

cameraVars == << cameraPosition, controlsTarget, cameraTargetPosition,
                 cameraTargetLookAt, isCameraFocusing, focusSpeed >>

clickVars == << lastHit, lastRequest, retargeted, discarded, epoch, age,
                interrupts, repeated >>

frameVars == << rendered, frameSteps >>

loopVars == << isPaused, animationFrameId, pendingFrames >>

loadVars == << starfieldPending, bodyTexturesPending, errorReported >>

planetVars == << planets, sliderListeners, orbitalSpeedFactor, lastSlider >>

pageVars == << threeAvailable, orbitControlsAvailable, scriptState,
               windowLoaded, retryPending, instances, retries >>

orbitVars == << globalSpeedFactor, currentAngle, orbitPosition,
                meshRotation, sunRotation, lastDelta >>

vars == << cameraVars, lastEvent, clickVars, frameVars, frameBodies,
           loopVars, loadVars, planetVars, pageVars, failures,
           beforeToggle, orbitVars >>

(***************************************************************************)
(* Bounds of the model.                                                    *)
(***************************************************************************)
\* model units per world unit
Scale == 1000
\* clicks that may arrive while a transition is active, per behaviour
MaxInterrupts == 1
\* a click interrupts a transition only within this many frames of its start
MaxInterruptAge == 2
\* the frame counter saturates here
MaxAge == 3
\* body and ring textures the page loads besides the background
MaxBodyTextures == 2
\* retries of initializeSimulationWhenReady that are counted
MaxRetries == 2
\* failures of a handler, per behaviour
MaxFailures == 1

(***************************************************************************)
(* Program constants.                                                      *)
(***************************************************************************)
NotANumber == -(2^30)

CAMERA_FOCUS_SPEED == [num |-> 1, den |-> 20]

CAMERA_INITIAL_POSITION == << 0, 150 * Scale, 300 * Scale >>

MIN_CAMERA_DISTANCE == 20 * Scale

MAX_CAMERA_DISTANCE == 1000 * Scale

\* const threshold = 0.1
threshold == Scale \div 10

Origin == << 0, 0, 0 >>

\* radius of Mercury (0.8) and of Jupiter (6)
MercuryRadius == (8 * Scale) \div 10

JupiterRadius == 6 * Scale

(***************************************************************************)
(* Floating point arithmetic on fixed-point values.                        *)
(***************************************************************************)
\* F applied to the value of a, which is computed once
Bind(a, F(_)) == CHOOSE r \in { F(x) : x \in { a } } : TRUE

IsNaN(x) == x = NotANumber

Abs(x) == IF x < 0 THEN -x ELSE x

Sign(x) == IF x < 0 THEN -1 ELSE 1

\* n / d rounded to the nearest integer, halves away from zero
RoundDiv(n, d) == Sign(n) * ((2 * Abs(n) + d) \div (2 * d))

\* n / d rounded away from zero
CeilDiv(n, d) == Sign(n) * ((Abs(n) + d - 1) \div d)

\* bisection for the square root of s[1] between s[2] and s[3]
SqrtSearch[s \in Nat \X Nat \X Nat] ==
    IF s[2] >= s[3] THEN s[2]
    ELSE LET mid == (s[2] + s[3] + 1) \div 2
         IN IF mid * mid <= s[1] THEN SqrtSearch[<< s[1], mid, s[3] >>]
                                 ELSE SqrtSearch[<< s[1], s[2], mid - 1 >>]

\* floor of the square root of n, 0 <= n < 2^31
ISqrt(n) == SqrtSearch[<< n, 0, 46340 >>]

HasNaN(v) == IsNaN(v[1]) \/ IsNaN(v[2]) \/ IsNaN(v[3])

AllNaN == << NotANumber, NotANumber, NotANumber >>

\* a + b on numbers
Plus(a, b) == IF IsNaN(a) \/ IsNaN(b) THEN NotANumber ELSE a + b

\* Vector3.add
VAdd(a, b) ==
    Bind(<< a, b >>, LAMBDA v :
       << Plus(v[1][1], v[2][1]), Plus(v[1][2], v[2][2]),
          Plus(v[1][3], v[2][3]) >>)

\* Vector3.sub on finite vectors
VSub(a, b) ==
    Bind(<< a, b >>, LAMBDA v :
       << v[1][1] - v[2][1], v[1][2] - v[2][2], v[1][3] - v[2][3] >>)

\* this.x += (v.x - this.x) * alpha
LerpNumber(a, b, alpha) ==
    IF IsNaN(a) \/ IsNaN(b) THEN NotANumber
    ELSE a + RoundDiv((b - a) * alpha.num, alpha.den)

\* Vector3.lerp
Lerp(a, b, alpha) ==
    Bind(<< a, b >>, LAMBDA v :
       << LerpNumber(v[1][1], v[2][1], alpha),
          LerpNumber(v[1][2], v[2][2], alpha),
          LerpNumber(v[1][3], v[2][3], alpha) >>)

\* the largest component magnitude of a finite vector
MaxAbs(v) ==
    LET a == Abs(v[1])
        b == Abs(v[2])
        c == Abs(v[3])
    IN IF a >= b /\ a >= c THEN a ELSE IF b >= c THEN b ELSE c

\* Vector3.length of a finite vector; exact below 26 world units, to a
\* hundredth of Scale beyond (squares must stay below 2^31)
Length(vector) ==
    Bind(vector, LAMBDA v :
        IF MaxAbs(v) < 26 * Scale
        THEN ISqrt(v[1] * v[1] + v[2] * v[2] + v[3] * v[3])
        ELSE LET g == Scale \div 10
                 x == Abs(v[1]) \div g
                 y == Abs(v[2]) \div g
                 z == Abs(v[3]) \div g
             IN g * ISqrt(x * x + y * y + z * z))

\* a.distanceTo(b) < threshold; false when a coordinate is NaN
DistanceBelowThreshold(a, b) ==
    Bind(<< a, b >>, LAMBDA v :
       /\ ~HasNaN(v[1])
       /\ ~HasNaN(v[2])
       /\ Bind(VSub(v[1], v[2]), LAMBDA d :
             /\ MaxAbs(d) < threshold
             /\ d[1] * d[1] + d[2] * d[2] + d[3] * d[3]
                   < threshold * threshold))

(***************************************************************************)
(* OrbitControls.update() without pointer input: the camera is put back    *)
(* on the sphere around the controls target that the limits of _initScene  *)
(* allow (maxPolarAngle = PI / 2, minDistance, maxDistance).               *)
(***************************************************************************)
\* c * num / den for magnitudes up to 2^20, to a thousandth of the ratio
ScaleBy(c, num, den) ==
    LET k == (num * 1000) \div den
        a == Abs(c)
    IN Sign(c) * ((a \div 1000) * k + ((a % 1000) * k) \div 1000)

\* spherical.phi = min(maxPolarAngle, phi): a camera below the target's
\* horizontal plane is lifted onto it, the radius kept
ClampPolar(offset) ==
    IF offset[2] >= 0 THEN offset
    ELSE Bind(<< Length(offset), Length(<< offset[1], 0, offset[3] >>) >>,
              LAMBDA len :
                 IF len[2] = 0 THEN << 0, 0, len[1] >>
                 ELSE << ScaleBy(offset[1], len[1], len[2]), 0,
                         ScaleBy(offset[3], len[1], len[2]) >>)

\* spherical.radius = max(minDistance, min(maxDistance, radius))
ClampRadius(offset) ==
    Bind(Length(offset), LAMBDA radius :
       IF radius = 0 THEN << 0, MIN_CAMERA_DISTANCE, 0 >>
       ELSE IF radius < MIN_CAMERA_DISTANCE
       THEN << CeilDiv(offset[1] * MIN_CAMERA_DISTANCE, radius),
               CeilDiv(offset[2] * MIN_CAMERA_DISTANCE, radius),
               CeilDiv(offset[3] * MIN_CAMERA_DISTANCE, radius) >>
       ELSE IF radius > MAX_CAMERA_DISTANCE
       THEN << ScaleBy(offset[1], MAX_CAMERA_DISTANCE, radius),
               ScaleBy(offset[2], MAX_CAMERA_DISTANCE, radius),
               ScaleBy(offset[3], MAX_CAMERA_DISTANCE, radius) >>
       ELSE offset)

\* the camera position after orbitControls.update()
ControlsUpdate(position, target) ==
    Bind(<< position, target >>, LAMBDA a :
       IF HasNaN(a[1]) \/ HasNaN(a[2]) THEN AllNaN
       ELSE Bind(VSub(a[1], a[2]), LAMBDA offset :
               Bind(ClampPolar(offset), LAMBDA lifted :
                  VAdd(a[2], ClampRadius(lifted)))))

(***************************************************************************)
(* _updateCameraFocus: the result of one call as a record.                 *)
(***************************************************************************)
\* lines 1210-1218: both lerps, then the controls
Interpolated(position, target, alpha) ==
    Bind(Lerp(target, cameraTargetLookAt, alpha), LAMBDA lookAt :
       [position |-> ControlsUpdate(
                        Lerp(position, cameraTargetPosition, alpha), lookAt),
        target   |-> lookAt])

\* line 1228 with || in place of &&
ReachedTargetEither(pose) ==
    \/ DistanceBelowThreshold(pose.position, cameraTargetPosition)
    \/ DistanceBelowThreshold(pose.target, cameraTargetLookAt)

\* line 1228
ReachedTarget(pose) ==
    /\ DistanceBelowThreshold(pose.position, cameraTargetPosition)
    /\ DistanceBelowThreshold(pose.target, cameraTargetLookAt)

\* a transition that is given up when a frame no longer moves the pose
UpdateCameraFocusGivesUp(position, target, alpha) ==
    IF ~isCameraFocusing
    THEN [position |-> position, target |-> target, focusing |-> FALSE]
    ELSE Bind(Interpolated(position, target, alpha), LAMBDA pose :
            IF ReachedTarget(pose)
            THEN [position |-> ControlsUpdate(cameraTargetPosition,
                                              cameraTargetLookAt),
                  target   |-> cameraTargetLookAt,
                  focusing |-> FALSE]
            ELSE [position |-> pose.position, target |-> pose.target,
                  focusing |-> (pose.position # position
                                \/ pose.target # target)])

\* isCameraFocusing = false moved out of the if of line 1228
UpdateCameraFocusStopsAlways(position, target, alpha) ==
    IF ~isCameraFocusing
    THEN [position |-> position, target |-> target, focusing |-> FALSE]
    ELSE Bind(Interpolated(position, target, alpha), LAMBDA pose :
            IF ReachedTarget(pose)
            THEN [position |-> ControlsUpdate(cameraTargetPosition,
                                              cameraTargetLookAt),
                  target   |-> cameraTargetLookAt,
                  focusing |-> FALSE]
            ELSE [position |-> pose.position, target |-> pose.target,
                  focusing |-> FALSE])

\* lines 1232-1235 left out
UpdateCameraFocusNoSnap(position, target, alpha) ==
    IF ~isCameraFocusing
    THEN [position |-> position, target |-> target, focusing |-> FALSE]
    ELSE Bind(Interpolated(position, target, alpha), LAMBDA pose :
            [position |-> pose.position, target |-> pose.target,
             focusing |-> ~ReachedTarget(pose)])

\* the early return of lines 1202-1205 left out
UpdateCameraFocusNoIdleReturn(position, target, alpha) ==
    Bind(Interpolated(position, target, alpha), LAMBDA pose :
       IF ReachedTarget(pose)
       THEN [position |-> ControlsUpdate(cameraTargetPosition,
                                         cameraTargetLookAt),
             target   |-> cameraTargetLookAt,
             focusing |-> FALSE]
       ELSE [position |-> pose.position, target |-> pose.target,
             focusing |-> isCameraFocusing])

UpdateCameraFocus(position, target, alpha) ==
    IF ~isCameraFocusing
    THEN [position |-> position, target |-> target, focusing |-> FALSE]
    ELSE Bind(Interpolated(position, target, alpha), LAMBDA pose :
            IF ReachedTarget(pose)
            THEN [position |-> ControlsUpdate(cameraTargetPosition,
                                              cameraTargetLookAt),
                  target   |-> cameraTargetLookAt,
                  focusing |-> FALSE]
            ELSE [position |-> pose.position, target |-> pose.target,
                  focusing |-> TRUE])

(***************************************************************************)
(* Inputs: what the raycaster reports for a click.                         *)
(***************************************************************************)
\* Mercury and Jupiter a quarter of the way round their orbits
MercuryHit == [position |-> << 20 * Scale, 0, 20 * Scale >>,
               radius   |-> MercuryRadius]

JupiterHit == [position |-> << 90 * Scale, 0, 90 * Scale >>,
               radius   |-> JupiterRadius]

\* a planet whose world position has a NaN coordinate
NonFiniteHit == [position |-> << NotANumber, 0, 0 >>,
                 radius   |-> MercuryRadius]

NoHit == [position |-> Origin, radius |-> 0]

FiniteHits == { MercuryHit, JupiterHit }

\* clicks are taken while idle, and early in a transition while the budget
\* of interrupting clicks lasts
ClickAllowed ==
    \/ ~isCameraFocusing
    \/ (interrupts < MaxInterrupts /\ age <= MaxInterruptAge)

CurrentTarget ==
    [position |-> cameraTargetPosition, lookAt |-> cameraTargetLookAt]

ClickHistory(event, hit) ==
    /\ lastEvent' = event
    /\ lastHit' = hit
    /\ lastRequest' = IF event # "emptyClick" THEN "issued"
                      ELSE IF isCameraFocusing THEN "stopped"
                      ELSE lastRequest
    /\ retargeted' = IF event = "emptyClick" \/ ~isCameraFocusing THEN FALSE
                     ELSE IF CurrentTarget' = CurrentTarget THEN retargeted
                     ELSE TRUE
    /\ discarded' = IF event = "emptyClick" \/ ~isCameraFocusing
                       \/ CurrentTarget' = CurrentTarget
                    THEN discarded ELSE CurrentTarget
    /\ epoch' = 1 - epoch
    /\ age' = 0
    /\ interrupts' = IF isCameraFocusing THEN interrupts + 1 ELSE interrupts
    /\ repeated' = /\ event # "emptyClick"
                   /\ isCameraFocusing
                   /\ CurrentTarget' = CurrentTarget
    /\ frameBodies' = 0
    /\ UNCHANGED << frameVars, loopVars, loadVars, planetVars, pageVars,
                    failures, beforeToggle, orbitVars >>

(***************************************************************************)
(* Handlers.                                                               *)
(***************************************************************************)
\* lines 1137-1141 with the x and z offsets exchanged
OnMouseClickPlanetSwapsOffsets(hit) ==
    /\ ClickAllowed
    /\ cameraTargetPosition' =
           VAdd(hit.position,
                << hit.radius * 5, hit.radius * 3, hit.radius * 2 >>)
    /\ cameraTargetLookAt' = hit.position
    /\ isCameraFocusing' = TRUE
    /\ ClickHistory("planetClick", hit)
    /\ UNCHANGED << cameraPosition, controlsTarget, focusSpeed >>

\* _onMouseClick, intersects.length > 0
OnMouseClickPlanet(hit) ==
    /\ ClickAllowed
    /\ cameraTargetPosition' =
           VAdd(hit.position,
                << hit.radius * 2, hit.radius * 3, hit.radius * 5 >>)
    /\ cameraTargetLookAt' = hit.position
    /\ isCameraFocusing' = TRUE
    /\ ClickHistory("planetClick", hit)
    /\ UNCHANGED << cameraPosition, controlsTarget, focusSpeed >>

\* lines 1151-1158 completing the transition instead of leaving the pose
OnMouseClickEmptySnaps ==
    /\ ClickAllowed
    /\ isCameraFocusing' = FALSE
    /\ cameraPosition' = IF isCameraFocusing THEN cameraTargetPosition
                         ELSE cameraPosition
    /\ controlsTarget' = IF isCameraFocusing THEN cameraTargetLookAt
                         ELSE controlsTarget
    /\ ClickHistory("emptyClick", lastHit)
    /\ UNCHANGED << cameraTargetPosition, cameraTargetLookAt, focusSpeed >>

\* _onMouseClick, no intersection
OnMouseClickEmpty ==
    /\ ClickAllowed
    /\ isCameraFocusing' = FALSE
    /\ ClickHistory("emptyClick", lastHit)
    /\ UNCHANGED << cameraPosition, controlsTarget, cameraTargetPosition,
                    cameraTargetLookAt, focusSpeed >>

\* a reset that puts the camera at the initial position at once
ResetCameraSnaps ==
    /\ ClickAllowed
    /\ cameraTargetPosition' = CAMERA_INITIAL_POSITION
    /\ cameraTargetLookAt' = Origin
    /\ isCameraFocusing' = TRUE
    /\ cameraPosition' = CAMERA_INITIAL_POSITION
    /\ ClickHistory("resetCamera", lastHit)
    /\ UNCHANGED << controlsTarget, focusSpeed >>

\* line 1183 as a toggle of the flag
ResetCameraTogglesFocus ==
    /\ ClickAllowed
    /\ cameraTargetPosition' = CAMERA_INITIAL_POSITION
    /\ cameraTargetLookAt' = Origin
    /\ isCameraFocusing' = ~isCameraFocusing
    /\ ClickHistory("resetCamera", lastHit)
    /\ UNCHANGED << cameraPosition, controlsTarget, focusSpeed >>

\* line 1182 left out
ResetCameraKeepsLookAt ==
    /\ ClickAllowed
    /\ cameraTargetPosition' = CAMERA_INITIAL_POSITION
    /\ cameraTargetLookAt' = cameraTargetLookAt
    /\ isCameraFocusing' = TRUE
    /\ ClickHistory("resetCamera", lastHit)
    /\ UNCHANGED << cameraPosition, controlsTarget, focusSpeed >>

ResetCamera ==
    /\ ClickAllowed
    /\ cameraTargetPosition' = CAMERA_INITIAL_POSITION
    /\ cameraTargetLookAt' = Origin
    /\ isCameraFocusing' = TRUE
    /\ ClickHistory("resetCamera", lastHit)
    /\ UNCHANGED << cameraPosition, controlsTarget, focusSpeed >>

(***************************************************************************)
(* animate: the steps of one call, on a record of the camera state, the    *)
(* pose last rendered and the steps taken.                                 *)
(***************************************************************************)
FrameState ==
    [position |-> cameraPosition, target |-> controlsTarget,
     focusing |-> isCameraFocusing, rendered |-> rendered,
     steps |-> frameSteps]

\* line 1492: orbitControls.update()
StepControls(f) ==
    [f EXCEPT !.position = ControlsUpdate(f.position, f.target),
              !.steps = Append(@, "controls")]

\* line 1502: _updateCameraFocus(); a call that follows, within one display
\* refresh, the call that ended the transition takes the early return
StepFocus(f) ==
    Bind(IF f.focusing = isCameraFocusing
         THEN UpdateCameraFocus(f.position, f.target, focusSpeed)
         ELSE [position |-> f.position, target |-> f.target,
               focusing |-> FALSE],
         LAMBDA r :
            [f EXCEPT !.position = r.position, !.target = r.target,
                      !.focusing = r.focusing,
                      !.steps = Append(@, "focus")])

\* line 1508: renderer.render(scene, camera)
StepRender(f) ==
    [f EXCEPT !.rendered = [position |-> f.position, target |-> f.target],
              !.steps = Append(@, "render")]

\* line 1508 moved above line 1502
AnimateBodyRendersFirst(f) ==
    Bind(StepControls([f EXCEPT !.steps = << >>]), LAMBDA a :
       Bind(StepRender(a), LAMBDA b : StepFocus(b)))

\* lines 1485-1508
AnimateBody(f) ==
    Bind(StepControls([f EXCEPT !.steps = << >>]), LAMBDA a :
       Bind(StepFocus(a), LAMBDA b : StepRender(b)))

\* n calls of animate, one after the other
RECURSIVE AnimateCalls(_, _)
AnimateCalls(n, f) ==
    IF n = 0 THEN f
    ELSE Bind(AnimateBody(f), LAMBDA g : AnimateCalls(n - 1, g))

\* a display refresh: every pending requestAnimationFrame callback runs
\* animate, which requests the next frame (line 1484) and runs its body
Animate ==
    /\ pendingFrames > 0
    /\ \E r \in { AnimateCalls(pendingFrames, FrameState) } :
          /\ cameraPosition' = r.position
          /\ controlsTarget' = r.target
          /\ isCameraFocusing' = r.focusing
          /\ rendered' = r.rendered
          /\ frameSteps' = r.steps
    /\ frameBodies' = pendingFrames
    /\ animationFrameId' = "pending"
    /\ lastEvent' = IF isCameraFocusing THEN "focusFrame" ELSE "idleFrame"
    /\ age' = IF age < MaxAge THEN age + 1 ELSE age
    /\ UNCHANGED << cameraTargetPosition, cameraTargetLookAt, focusSpeed,
                    lastHit, lastRequest, retargeted, discarded,
                    epoch, interrupts, repeated, isPaused, pendingFrames,
                    loadVars, planetVars, pageVars,
                    failures, beforeToggle, orbitVars >>

(***************************************************************************)
(* Failures: a statement of _updateCameraFocus or of _onMouseClick throws. *)
(***************************************************************************)
\* the statement of the try block of _updateCameraFocus that throws
FocusFaultPoints == { "lerpPosition", "lerpTarget", "update" }

\* the statement of the try block of _onMouseClick that throws
ClickFaultPoints == { "raycast", "lookAt" }

\* a handler fails early in a transition or while idle, while the budget
\* of failures lasts
FailureAllowed ==
    /\ failures < MaxFailures
    /\ age <= MaxInterruptAge

\* lines 1207-1244 when the statement named by point throws: the
\* statements before it have run, then the catch block
UpdateCameraFocusFails(position, target, alpha, point) ==
    [position |-> IF point = "lerpPosition" THEN position
                  ELSE Lerp(position, cameraTargetPosition, alpha),
     target   |-> IF point = "update"
                  THEN Lerp(target, cameraTargetLookAt, alpha)
                  ELSE target,
     focusing |-> FALSE]

\* line 1502 when _updateCameraFocus fails: the catch block reports
StepFocusFails(f, point) ==
    Bind(UpdateCameraFocusFails(f.position, f.target, focusSpeed, point),
         LAMBDA r :
            [f EXCEPT !.position = r.position, !.target = r.target,
                      !.focusing = r.focusing,
                      !.steps = Append(Append(@, "focus"), "report")])

\* the try and catch of lines 1207 and 1240-1244 left out: the exception
\* leaves animate at line 1502
AnimateBodyFailsUncaught(f, point) ==
    Bind(StepControls([f EXCEPT !.steps = << >>]), LAMBDA a :
       Bind(UpdateCameraFocusFails(a.position, a.target, focusSpeed, point),
            LAMBDA r :
               [a EXCEPT !.position = r.position, !.target = r.target,
                         !.steps = Append(@, "focus")]))

\* lines 1485-1508 when _updateCameraFocus fails
AnimateBodyFails(f, point) ==
    Bind(StepControls([f EXCEPT !.steps = << >>]), LAMBDA a :
       Bind(StepFocusFails(a, point), LAMBDA b : StepRender(b)))

\* a display refresh whose first call of animate has a failing focus update
AnimateFails(point) ==
    /\ pendingFrames > 0
    /\ isCameraFocusing
    /\ FailureAllowed
    /\ \E r \in { AnimateCalls(pendingFrames - 1,
                                AnimateBodyFails(FrameState, point)) } :
          /\ cameraPosition' = r.position
          /\ controlsTarget' = r.target
          /\ isCameraFocusing' = r.focusing
          /\ rendered' = r.rendered
          /\ frameSteps' = r.steps
    /\ frameBodies' = pendingFrames
    /\ animationFrameId' = "pending"
    /\ lastEvent' = "failedFrame"
    /\ age' = IF age < MaxAge THEN age + 1 ELSE age
    /\ failures' = failures + 1
    /\ UNCHANGED << cameraTargetPosition, cameraTargetLookAt, focusSpeed,
                    lastHit, lastRequest, retargeted, discarded,
                    epoch, interrupts, repeated, isPaused, pendingFrames,
                    loadVars, planetVars, pageVars, beforeToggle,
                    orbitVars >>

\* _onMouseClick on a planet when the statement named by point throws:
\* lines 1136-1141 have run when the copy of line 1144 fails
OnMouseClickFails(hit, point) ==
    /\ ClickAllowed
    /\ FailureAllowed
    /\ cameraTargetPosition' =
           IF point = "lookAt"
           THEN VAdd(hit.position,
                     << hit.radius * 2, hit.radius * 3, hit.radius * 5 >>)
           ELSE cameraTargetPosition
    /\ lastEvent' = "failedClick"
    /\ lastHit' = hit
    /\ epoch' = 1 - epoch
    /\ age' = 0
    /\ interrupts' = IF isCameraFocusing THEN interrupts + 1 ELSE interrupts
    /\ failures' = failures + 1
    /\ frameBodies' = 0
    /\ UNCHANGED << cameraPosition, controlsTarget, cameraTargetLookAt,
                    isCameraFocusing, focusSpeed, lastRequest, retargeted,
                    discarded, repeated, frameVars, loopVars, loadVars,
                    planetVars, pageVars, beforeToggle, orbitVars >>

(***************************************************************************)
(* The page around the camera: planets, sliders and the frame loop.        *)
(***************************************************************************)
\* the entries of CELESTIAL_BODIES_DATA other than the Sun
PlanetNames == { "Mercury", "Venus", "Earth", "Mars",
                 "Jupiter", "Saturn", "Uranus", "Neptune" }

\* orbitalSpeedFactor: 1.0 of a new planet, in hundredths
InitialSpeedFactor == 100

\* values a speed slider reports, in hundredths
SliderValues == { 0, 250 }

NoSlider == [planet |-> "none", value |-> InitialSpeedFactor]

\* no frame has been rendered
NoPose == [position |-> AllNaN, target |-> AllNaN]

\* no _toggleAnimation has run
NoToggle == [isPaused |-> FALSE, pendingFrames |-> 0]

\* globalSpeedFactor: 1.0, in hundredths
InitialGlobalSpeedFactor == 100

\* orbitalSpeed of CELESTIAL_BODIES_DATA, in thousandths
OrbitalSpeed ==
    [p \in PlanetNames |->
        CASE p = "Mercury" -> 40 [] p = "Venus" -> 30 [] p = "Earth" -> 25
          [] p = "Mars" -> 20 [] p = "Jupiter" -> 10 [] p = "Saturn" -> 9
          [] p = "Uranus" -> 7 [] p = "Neptune" -> 6]

\* rotationSpeed of CELESTIAL_BODIES_DATA, in thousandths
RotationSpeed ==
    [p \in PlanetNames |->
        CASE p = "Mercury" -> 10 [] p = "Venus" -> 8 [] p = "Earth" -> 15
          [] p = "Mars" -> 12 [] p = "Jupiter" -> 7 [] p = "Saturn" -> 6
          [] p = "Uranus" -> 5 [] p = "Neptune" -> 4]

\* rotationSpeed of the Sun, in thousandths
SunRotationSpeed == 5

\* distance of CELESTIAL_BODIES_DATA, in world units
OrbitDistance ==
    [p \in PlanetNames |->
        CASE p = "Mercury" -> 20 [] p = "Venus" -> 30 [] p = "Earth" -> 45
          [] p = "Mars" -> 60 [] p = "Jupiter" -> 90 [] p = "Saturn" -> 120
          [] p = "Uranus" -> 150 [] p = "Neptune" -> 180]

\* the point (cos(angle) * distance, 0, sin(angle) * distance) of lines
\* 1281-1282 is kept as its distance and angle
PointOnOrbit(distance, angle) == [distance |-> distance, angle |-> angle]

\* the orbit groups and meshes as they are created: at the origin of the
\* scene, not rotated
OrbitsAsCreated ==
    /\ globalSpeedFactor = InitialGlobalSpeedFactor
    /\ currentAngle = [p \in PlanetNames |-> 0]
    /\ orbitPosition = [p \in PlanetNames |-> PointOnOrbit(0, 0)]
    /\ meshRotation = [p \in PlanetNames |-> 0]
    /\ sunRotation = 0
    /\ lastDelta = 0

\* the page once every asset has loaded without an error and the call of
\* animate made by onLoad has rendered the first frame
Running ==
    /\ repeated = FALSE
    /\ rendered = [position |-> cameraPosition, target |-> controlsTarget]
    /\ frameSteps = << "controls", "focus", "render" >>
    /\ frameBodies = 1
    /\ isPaused = FALSE
    /\ animationFrameId = "pending"
    /\ pendingFrames = 1
    /\ starfieldPending = FALSE
    /\ bodyTexturesPending = 0
    /\ errorReported = FALSE
    /\ planets = PlanetNames
    /\ sliderListeners = {}
    /\ orbitalSpeedFactor = [p \in PlanetNames |-> InitialSpeedFactor]
    /\ lastSlider = NoSlider
    /\ threeAvailable = TRUE
    /\ orbitControlsAvailable = TRUE
    /\ scriptState = "evaluated"
    /\ windowLoaded = TRUE
    /\ retryPending = FALSE
    /\ instances = 1
    /\ retries = 0
    /\ failures = 0
    /\ beforeToggle = NoToggle
    /\ OrbitsAsCreated

\* a call of animate outside a display refresh (lines 307, 321 and 1059):
\* calls times, each requesting a frame and running the body at once
CallAnimate(calls) ==
    /\ \E r \in { AnimateCalls(calls, FrameState) } :
          /\ cameraPosition' = r.position
          /\ controlsTarget' = r.target
          /\ isCameraFocusing' = r.focusing
          /\ rendered' = r.rendered
          /\ frameSteps' = r.steps
    /\ frameBodies' = calls
    /\ pendingFrames' = pendingFrames + calls
    /\ animationFrameId' = IF calls > 0 THEN "pending" ELSE animationFrameId

\* a texture ends loading: the LoadingManager calls onError for a failed
\* one and onLoad after the last one, and each of them calls animate; the
\* planets are created once every body texture has ended
ItemEnd(kind, failed) ==
    /\ instances > 0
    /\ IF kind = "starfield" THEN starfieldPending
       ELSE bodyTexturesPending > 0
    /\ starfieldPending' = (starfieldPending /\ kind # "starfield")
    /\ bodyTexturesPending' = IF kind = "body" THEN bodyTexturesPending - 1
                              ELSE bodyTexturesPending
    /\ errorReported' = (errorReported \/ failed)
    /\ CallAnimate((IF failed THEN 1 ELSE 0)
                   + (IF ~starfieldPending' /\ bodyTexturesPending' = 0
                      THEN 1 ELSE 0))
    /\ IF kind = "body" /\ bodyTexturesPending' = 0
       THEN /\ planets' = PlanetNames
            /\ orbitalSpeedFactor' =
                   [p \in PlanetNames |-> InitialSpeedFactor]
       ELSE UNCHANGED << planets, orbitalSpeedFactor >>
    /\ lastEvent' = IF failed THEN "itemError" ELSE "itemLoad"
    /\ UNCHANGED << cameraTargetPosition, cameraTargetLookAt, focusSpeed,
                    clickVars, isPaused, sliderListeners, lastSlider,
                    pageVars,
                    failures, beforeToggle, orbitVars >>

\* _toggleAnimation
ToggleAnimation ==
    /\ instances > 0
    /\ isPaused' = ~isPaused
    /\ IF isPaused'
       THEN /\ pendingFrames' = IF animationFrameId = "pending"
                                THEN pendingFrames - 1 ELSE pendingFrames
            /\ animationFrameId' = "null"
            /\ frameBodies' = 0
            /\ UNCHANGED << cameraPosition, controlsTarget,
                            isCameraFocusing, frameVars >>
       ELSE CallAnimate(1)
    /\ lastEvent' = "toggle"
    /\ beforeToggle' = [isPaused |-> isPaused,
                        pendingFrames |-> pendingFrames]
    /\ UNCHANGED << cameraTargetPosition, cameraTargetLookAt, focusSpeed,
                    clickVars, loadVars, planetVars, pageVars,
                    failures, orbitVars >>

\* an input event on the speed slider of a planet
SliderInput(planet, value) ==
    /\ instances > 0
    /\ orbitalSpeedFactor' =
          IF planet \in sliderListeners
          THEN [orbitalSpeedFactor EXCEPT ![planet] = value]
          ELSE orbitalSpeedFactor
    /\ lastSlider' = [planet |-> planet, value |-> value]
    /\ lastEvent' = "slider"
    /\ frameBodies' = 0
    /\ UNCHANGED << cameraVars, clickVars, frameVars, loopVars, loadVars,
                    planets, sliderListeners, pageVars,
                    failures, beforeToggle, orbitVars >>

\* new SolarSystemSimulation(): the constructor starts the texture loads
\* and attaches the listeners; the slider listeners go to the planets
\* that exist at that moment (line 951)
Construct ==
    /\ instances' = instances + 1
    /\ starfieldPending' = TRUE
    /\ bodyTexturesPending' = MaxBodyTextures
    /\ sliderListeners' = planets
    /\ UNCHANGED << errorReported, planets, orbitalSpeedFactor >>

\* lines 1557-1558 moved below the if statement
InitializeSimulationWhenReadyAlwaysRetries ==
    /\ IF threeAvailable /\ orbitControlsAvailable
       THEN Construct
       ELSE UNCHANGED << instances, loadVars, planets, sliderListeners,
                         orbitalSpeedFactor >>
    /\ retryPending' = TRUE
    /\ retries' = IF retries < MaxRetries THEN retries + 1 ELSE retries

\* initializeSimulationWhenReady
InitializeSimulationWhenReady ==
    IF threeAvailable /\ orbitControlsAvailable
    THEN /\ Construct
         /\ retryPending' = FALSE
         /\ retries' = retries
    ELSE /\ retryPending' = TRUE
         /\ retries' = IF retries < MaxRetries THEN retries + 1 ELSE retries
         /\ UNCHANGED << instances, loadVars, planets, sliderListeners,
                         orbitalSpeedFactor >>

\* a library script defines THREE, or THREE.OrbitControls on it
LibraryLoads(library) ==
    /\ IF library = "three" THEN ~threeAvailable
       ELSE threeAvailable /\ ~orbitControlsAvailable
    /\ threeAvailable' = TRUE
    /\ orbitControlsAvailable' = (library = "orbitControls")
    /\ lastEvent' = "library"
    /\ frameBodies' = 0
    /\ UNCHANGED << cameraVars, clickVars, frameVars, loopVars, loadVars,
                    planetVars, scriptState, windowLoaded, retryPending,
                    instances, retries,
                    failures, beforeToggle, orbitVars >>

\* the top level of script.js: line 165 throws when THREE is not defined,
\* and line 1563 is then never reached
EvaluateScript ==
    /\ scriptState = "pending"
    /\ scriptState' = IF threeAvailable THEN "evaluated" ELSE "aborted"
    /\ lastEvent' = "script"
    /\ frameBodies' = 0
    /\ UNCHANGED << cameraVars, clickVars, frameVars, loopVars, loadVars,
                    planetVars, threeAvailable, orbitControlsAvailable,
                    windowLoaded, retryPending, instances, retries,
                    failures, beforeToggle, orbitVars >>

\* the load event of the window: window.onload (line 1563)
WindowLoad ==
    /\ ~windowLoaded
    /\ scriptState # "pending"
    /\ windowLoaded' = TRUE
    /\ IF scriptState = "evaluated"
       THEN InitializeSimulationWhenReady
       ELSE UNCHANGED << retryPending, retries, instances, loadVars,
                         planets, sliderListeners, orbitalSpeedFactor >>
    /\ lastEvent' = "load"
    /\ frameBodies' = 0
    /\ UNCHANGED << cameraVars, clickVars, frameVars, loopVars, lastSlider,
                    threeAvailable, orbitControlsAvailable, scriptState,
                    failures, beforeToggle, orbitVars >>

\* the timer of line 1558 fires
RetryTimer ==
    /\ retryPending
    /\ InitializeSimulationWhenReady
    /\ lastEvent' = "retry"
    /\ frameBodies' = 0
    /\ UNCHANGED << cameraVars, clickVars, frameVars, loopVars, lastSlider,
                    threeAvailable, orbitControlsAvailable, scriptState,
                    windowLoaded,
                    failures, beforeToggle, orbitVars >>

\* the page before script.js is evaluated
InitPage ==
    /\ cameraPosition = CAMERA_INITIAL_POSITION
    /\ controlsTarget = Origin
    /\ cameraTargetPosition = Origin
    /\ cameraTargetLookAt = Origin
    /\ isCameraFocusing = FALSE
    /\ focusSpeed = CAMERA_FOCUS_SPEED
    /\ lastEvent = "init"
    /\ lastHit = NoHit
    /\ lastRequest = "none"
    /\ retargeted = FALSE
    /\ discarded = [position |-> Origin, lookAt |-> Origin]
    /\ epoch = 0
    /\ age = 0
    /\ interrupts = 0
    /\ repeated = FALSE
    /\ rendered = NoPose
    /\ frameSteps = << >>
    /\ frameBodies = 0
    /\ isPaused = FALSE
    /\ animationFrameId = "null"
    /\ pendingFrames = 0
    /\ starfieldPending = FALSE
    /\ bodyTexturesPending = 0
    /\ errorReported = FALSE
    /\ planets = {}
    /\ sliderListeners = {}
    /\ orbitalSpeedFactor = [p \in {} |-> InitialSpeedFactor]
    /\ lastSlider = NoSlider
    /\ threeAvailable \in BOOLEAN
    /\ orbitControlsAvailable \in BOOLEAN
    /\ orbitControlsAvailable => threeAvailable
    /\ scriptState = "pending"
    /\ windowLoaded = FALSE
    /\ retryPending = FALSE
    /\ instances = 0
    /\ retries = 0
    /\ failures = 0
    /\ beforeToggle = NoToggle
    /\ OrbitsAsCreated

NextPage ==
    \/ \E library \in { "three", "orbitControls" } : LibraryLoads(library)
    \/ EvaluateScript
    \/ WindowLoad
    \/ RetryTimer
    \/ \E kind \in { "starfield", "body" }, failed \in BOOLEAN :
          ItemEnd(kind, failed)
    \/ ToggleAnimation
    \/ \E planet \in PlanetNames, value \in SliderValues :
          SliderInput(planet, value)
    \/ Animate

SpecPage == InitPage /\ [][NextPage]_vars

(***************************************************************************)
(* The running program: clicks and frames once the assets are loaded.      *)
(***************************************************************************)
Init ==
    /\ cameraPosition = CAMERA_INITIAL_POSITION
    /\ controlsTarget = Origin
    /\ cameraTargetPosition = Origin
    /\ cameraTargetLookAt = Origin
    /\ isCameraFocusing = FALSE
    /\ focusSpeed = CAMERA_FOCUS_SPEED
    /\ lastEvent = "init"
    /\ lastHit = NoHit
    /\ lastRequest = "none"
    /\ retargeted = FALSE
    /\ discarded = [position |-> Origin, lookAt |-> Origin]
    /\ epoch = 0
    /\ age = 0
    /\ interrupts = 0
    /\ Running

Next ==
    \/ \E hit \in FiniteHits : OnMouseClickPlanet(hit)
    \/ OnMouseClickEmpty
    \/ ResetCamera
    \/ Animate

Spec == Init /\ [][Next]_vars

(***************************************************************************)
(* The same program when the raycaster may also report a planet whose      *)
(* world position is not finite.                                           *)
(***************************************************************************)
NextNonFinite ==
    \/ \E hit \in FiniteHits \cup { NonFiniteHit } : OnMouseClickPlanet(hit)
    \/ OnMouseClickEmpty
    \/ ResetCamera
    \/ Animate

SpecNonFinite == Init /\ [][NextNonFinite]_vars

(***************************************************************************)
(* The running program when a statement of the focus update or of the      *)
(* click handler may throw.                                                *)
(***************************************************************************)
\* requests arrive until the first failure
NextFault ==
    \/ /\ failures = 0
       /\ \/ \E hit \in FiniteHits : OnMouseClickPlanet(hit)
          \/ OnMouseClickEmpty
          \/ ResetCamera
    \/ Animate
    \/ \E point \in FocusFaultPoints : AnimateFails(point)
    \/ \E hit \in FiniteHits, point \in ClickFaultPoints :
          OnMouseClickFails(hit, point)

SpecFault == Init /\ [][NextFault]_vars

(***************************************************************************)
(* _updatePlanetPositions as a function of its inputs: the pause flag, the *)
(* two kinds of speed factor, the angles reached so far and deltaTime.     *)
(* Angles are in units of 10^-10 rad: thousandths of rad/s times           *)
(* hundredths times hundredths times milliseconds.                         *)
(***************************************************************************)
\* deltaTime of a frame, in milliseconds
DeltaTimes == { 16, 33 }

\* values of planet.orbitalSpeedFactor, in hundredths
SpeedFactors == { 0, 50, InitialSpeedFactor, 250 }

\* values of globalSpeedFactor, in hundredths
GlobalSpeedFactors == { 0, InitialGlobalSpeedFactor, 200 }

\* currentAngle of every planet after earlier frames, in the unit of angles
StartAngle == 1000000

\* (planet.orbitalSpeedFactor || 1) of lines 1273 and 1286
FactorOrOne(factor) == IF factor = 0 THEN 100 ELSE factor

\* lines 1261-1289: the orbit state after the update of an unpaused frame
PlanetsAfter(deltaTime) ==
    Bind([p \in PlanetNames |->
             IF p \in planets
             THEN currentAngle[p]
                  + OrbitalSpeed[p] * FactorOrOne(orbitalSpeedFactor[p])
                    * globalSpeedFactor * deltaTime
             ELSE currentAngle[p]],
         LAMBDA angle :
            [angle    |-> angle,
             position |-> [p \in PlanetNames |->
                              IF p \in planets
                              THEN PointOnOrbit(OrbitDistance[p], angle[p])
                              ELSE orbitPosition[p]],
             rotation |-> [p \in PlanetNames |->
                              IF p \in planets
                              THEN meshRotation[p]
                                   + RotationSpeed[p]
                                     * FactorOrOne(orbitalSpeedFactor[p])
                                     * globalSpeedFactor * deltaTime
                              ELSE meshRotation[p]],
             sun      |-> sunRotation
                          + SunRotationSpeed * deltaTime * globalSpeedFactor])

\* the orbit state as it is
PlanetsNow ==
    [angle |-> currentAngle, position |-> orbitPosition,
     rotation |-> meshRotation, sun |-> sunRotation]

\* the early return of lines 1257-1259 left out
PlanetsUpdateIgnoresPause(deltaTime) == PlanetsAfter(deltaTime)

\* lines 1255-1294
PlanetsUpdate(deltaTime) ==
    IF isPaused THEN PlanetsNow ELSE PlanetsAfter(deltaTime)

\* one call of _updatePlanetPositions(deltaTime)
UpdatePlanetPositions(deltaTime) ==
    /\ age < MaxAge
    /\ \E r \in { PlanetsUpdate(deltaTime) } :
          /\ currentAngle' = r.angle
          /\ orbitPosition' = r.position
          /\ meshRotation' = r.rotation
          /\ sunRotation' = r.sun
    /\ lastDelta' = deltaTime
    /\ lastEvent' = "planetUpdate"
    /\ age' = age + 1
    /\ frameBodies' = 0
    /\ UNCHANGED << cameraVars, lastHit, lastRequest, retargeted, discarded,
                    epoch, interrupts, repeated, frameVars, loopVars,
                    loadVars, planetVars, pageVars, failures, beforeToggle,
                    globalSpeedFactor >>

\* the running page, paused or not, with the slider values and the angles
\* drawn from the input sets
InitPlanets ==
    /\ cameraPosition = CAMERA_INITIAL_POSITION
    /\ controlsTarget = Origin
    /\ cameraTargetPosition = Origin
    /\ cameraTargetLookAt = Origin
    /\ isCameraFocusing = FALSE
    /\ focusSpeed = CAMERA_FOCUS_SPEED
    /\ lastHit = NoHit
    /\ lastRequest = "none"
    /\ retargeted = FALSE
    /\ discarded = [position |-> Origin, lookAt |-> Origin]
    /\ epoch = 0
    /\ age = 0
    /\ interrupts = 0
    /\ repeated = FALSE
    /\ rendered = [position |-> cameraPosition, target |-> controlsTarget]
    /\ frameSteps = << "controls", "focus", "render" >>
    /\ isPaused \in BOOLEAN
    /\ lastEvent = IF isPaused THEN "toggle" ELSE "init"
    /\ frameBodies = IF isPaused THEN 0 ELSE 1
    /\ animationFrameId = IF isPaused THEN "null" ELSE "pending"
    /\ pendingFrames = IF isPaused THEN 0 ELSE 1
    /\ beforeToggle = IF isPaused
                      THEN [isPaused |-> FALSE, pendingFrames |-> 1]
                      ELSE NoToggle
    /\ starfieldPending = FALSE
    /\ bodyTexturesPending = 0
    /\ errorReported = FALSE
    /\ planets = PlanetNames
    /\ sliderListeners = {}
    /\ \E planet \in PlanetNames, factor \in SpeedFactors :
          orbitalSpeedFactor =
             [p \in PlanetNames |->
                 IF p = planet THEN factor ELSE InitialSpeedFactor]
    /\ lastSlider = NoSlider
    /\ threeAvailable = TRUE
    /\ orbitControlsAvailable = TRUE
    /\ scriptState = "evaluated"
    /\ windowLoaded = TRUE
    /\ retryPending = FALSE
    /\ instances = 1
    /\ retries = 0
    /\ failures = 0
    /\ globalSpeedFactor \in GlobalSpeedFactors
    /\ \E angle \in { 0, StartAngle } :
          /\ currentAngle = [p \in PlanetNames |-> angle]
          /\ orbitPosition =
                [p \in PlanetNames |->
                    IF angle = 0 THEN PointOnOrbit(0, 0)
                    ELSE PointOnOrbit(OrbitDistance[p], angle)]
          /\ meshRotation = [p \in PlanetNames |-> angle]
          /\ sunRotation = angle
    /\ lastDelta = 0

NextPlanets == \E deltaTime \in DeltaTimes : UpdatePlanetPositions(deltaTime)

SpecPlanets == InitPlanets /\ [][NextPlanets]_vars

\* the render loop keeps requesting frames
FairSpec == Spec /\ WF_vars(Animate)

TypeOK ==
    /\ isCameraFocusing \in BOOLEAN
    /\ epoch \in {0, 1}
    /\ age \in 0..MaxAge
    /\ interrupts \in 0..MaxInterrupts
    /\ lastRequest \in {"none", "issued", "stopped"}
    /\ retargeted \in BOOLEAN
    /\ ~HasNaN(cameraPosition)
    /\ ~HasNaN(controlsTarget)

(***************************************************************************)
(* The focus update as a function of its inputs: the frames that follow    *)
(* one request, for a start pose, a target and an interpolation factor     *)
(* drawn from small sets.                                                  *)
(***************************************************************************)
FocusSpeeds == { CAMERA_FOCUS_SPEED, [num |-> 1, den |-> 2],
                 [num |-> 1, den |-> 1] }

\* target pose a click on the planet of a hit asks for
HitTarget(hit) ==
    [position |-> VAdd(hit.position,
                       << hit.radius * 2, hit.radius * 3, hit.radius * 5 >>),
     lookAt   |-> hit.position]

ResetTarget == [position |-> CAMERA_INITIAL_POSITION, lookAt |-> Origin]

\* pose (0,0,0) looking at (0,0,0), asked to go to (10,0,0) looking at (0,0,0)
ScenarioStart == [position |-> Origin, lookAt |-> Origin]

ScenarioTarget == [position |-> << 10 * Scale, 0, 0 >>, lookAt |-> Origin]

TickInputs ==
    { << ScenarioStart, ScenarioTarget >> }
    \cup ({ ResetTarget, HitTarget(JupiterHit) }
          \X { ResetTarget, HitTarget(JupiterHit), HitTarget(MercuryHit) })

InitTick ==
    /\ \E io \in TickInputs :
          /\ cameraPosition = io[1].position
          /\ controlsTarget = io[1].lookAt
          /\ cameraTargetPosition = io[2].position
          /\ cameraTargetLookAt = io[2].lookAt
    /\ focusSpeed \in FocusSpeeds
    /\ isCameraFocusing = TRUE
    /\ lastEvent = "init"
    /\ lastHit = NoHit
    /\ lastRequest = "issued"
    /\ retargeted = FALSE
    /\ discarded = [position |-> Origin, lookAt |-> Origin]
    /\ epoch = 0
    /\ age = 0
    /\ interrupts = 0
    /\ Running

NextTick == Animate

SpecTick == InitTick /\ [][NextTick]_vars

(***************************************************************************)
(* Properties.                                                             *)
(***************************************************************************)
\* the camera pose is within 0.1 of the stored target
PoseWithinThreshold ==
    /\ DistanceBelowThreshold(cameraPosition, cameraTargetPosition)
    /\ DistanceBelowThreshold(controlsTarget, cameraTargetLookAt)

\* the camera pose is exactly the stored target
PoseAtTarget ==
    /\ cameraPosition = cameraTargetPosition
    /\ controlsTarget = cameraTargetLookAt

\* the pose after lines 1210-1218 of the next focus update
NextInterpolatedPosition ==
    ControlsUpdate(
        Lerp(ControlsUpdate(cameraPosition, controlsTarget),
             cameraTargetPosition, focusSpeed),
        Lerp(controlsTarget, cameraTargetLookAt, focusSpeed))

NextInterpolatedLookAt == Lerp(controlsTarget, cameraTargetLookAt, focusSpeed)

\* the convergence check of the next focus update succeeds
NextTickConverges ==
    /\ DistanceBelowThreshold(NextInterpolatedPosition, cameraTargetPosition)
    /\ DistanceBelowThreshold(NextInterpolatedLookAt, cameraTargetLookAt)

\* C1: once a focus request has been issued and no further click arrives,
\* the frames eventually bring the controller to Idle with the camera
\* position and look-at within 0.1 of the requested target.
C1_EventuallyIdleAtTarget ==
    \A e \in {0, 1} :
        (isCameraFocusing /\ epoch = e)
            ~> ((~isCameraFocusing /\ PoseWithinThreshold) \/ epoch # e)

C3_RetargetEndsAtSecondTarget ==
    /\ [](retargeted /\ ~isCameraFocusing
             => ~(/\ cameraPosition = discarded.position
                  /\ controlsTarget = discarded.lookAt))
    /\ \A e \in {0, 1} :
          (retargeted /\ isCameraFocusing /\ epoch = e)
              ~> ((~isCameraFocusing /\ PoseAtTarget) \/ epoch # e)

C5_NonFiniteTargetRejected ==
    [][ (lastEvent' = "planetClick" /\ HasNaN(lastHit'.position))
           => UNCHANGED << isCameraFocusing, cameraTargetPosition,
                           cameraTargetLookAt >> ]_vars

C7_IdleTickChangesNothing ==
    [][ (~isCameraFocusing /\ lastEvent' = "idleFrame")
           => UNCHANGED << cameraPosition, controlsTarget,
                           cameraTargetPosition, cameraTargetLookAt,
                           isCameraFocusing >> ]_vars

\* an Idle frame ran while the pose was away from the stored target
C7_Witness ==
    /\ lastEvent = "idleFrame"
    /\ lastRequest = "stopped"
    /\ ~PoseWithinThreshold

\* C8: right after a planet click or a camera reset the state is
\* Transitioning and the stored target is the one of the request.
C8_RequestStoresTarget ==
    /\ lastEvent = "planetClick"
          => /\ isCameraFocusing
             /\ cameraTargetLookAt = lastHit.position
             /\ cameraTargetPosition =
                   << lastHit.position[1] + 2 * lastHit.radius,
                      lastHit.position[2] + 3 * lastHit.radius,
                      lastHit.position[3] + 5 * lastHit.radius >>
    /\ lastEvent = "resetCamera"
          => /\ isCameraFocusing
             /\ cameraTargetLookAt = Origin
             /\ cameraTargetPosition = CAMERA_INITIAL_POSITION

\* a reset arrived while a transition to a planet was under way
C8_Witness ==
    /\ lastEvent = "resetCamera"
    /\ interrupts = 1
    /\ discarded = HitTarget(JupiterHit)

\* C9: with interpolation factor 1 a single focus update from any pose in
\* state Transitioning leaves the pose exactly at the target and the
\* state Idle.
C9_FactorOneConvergesInOneTick ==
    [][ (isCameraFocusing /\ focusSpeed = [num |-> 1, den |-> 1]
                          /\ lastEvent' = "focusFrame")
           => /\ ~isCameraFocusing'
              /\ cameraPosition' = cameraTargetPosition
              /\ controlsTarget' = cameraTargetLookAt ]_vars

\* C10: from position (0,0,0) and look-at (0,0,0), target position (10,0,0)
\* and look-at (0,0,0), factor 0.5: the position is (5,0,0) after the first
\* update and (7.5,0,0) after the second; an update whose resulting distance
\* is at least 0.1 leaves the state Transitioning, the first one below 0.1
\* sets the position to (10,0,0) and the state to Idle.
C10_HalfFactorScenario ==
    [][ (/\ isCameraFocusing
         /\ focusSpeed = [num |-> 1, den |-> 2]
         /\ CurrentTarget = ScenarioTarget
         /\ lastEvent' = "focusFrame")
           => /\ age = 0 => cameraPosition' = << 5 * Scale, 0, 0 >>
              /\ age = 1 => cameraPosition' = << (15 * Scale) \div 2, 0, 0 >>
              /\ IF NextTickConverges
                 THEN /\ ~isCameraFocusing'
                      /\ cameraPosition' = << 10 * Scale, 0, 0 >>
                 ELSE isCameraFocusing' ]_vars

\* C11: a planet click or a camera reset that asks, while a transition is
\* active, for the target that is already stored leaves the camera pose,
\* the stored target and the focus state as they were, so the frames that
\* follow are those of the single request.
C11_RepeatedRequestChangesNothing ==
    [][ (/\ isCameraFocusing
         /\ lastEvent' \in {"planetClick", "resetCamera"}
         /\ CurrentTarget' = CurrentTarget)
           => UNCHANGED << cameraPosition, controlsTarget,
                           cameraTargetPosition, cameraTargetLookAt,
                           isCameraFocusing, focusSpeed >> ]_vars

\* the same reset arrived a second time after frames of its transition
C11_Witness ==
    /\ lastEvent = "resetCamera"
    /\ repeated
    /\ isCameraFocusing
    /\ cameraPosition # CAMERA_INITIAL_POSITION
    /\ ~PoseWithinThreshold

\* C16: a frame of a transition whose convergence check fails leaves the
\* state Transitioning and the stored target in place, however many frames
\* the transition has already taken.
C16_NoTimeout ==
    [][ (isCameraFocusing /\ lastEvent' = "focusFrame" /\ ~NextTickConverges)
           => /\ isCameraFocusing'
              /\ UNCHANGED << cameraTargetPosition,
                              cameraTargetLookAt >> ]_vars

\* a transition whose frames no longer move the pose is still active
C16_Witness ==
    /\ lastEvent = "focusFrame"
    /\ isCameraFocusing
    /\ age = MaxAge
    /\ ~NextTickConverges
    /\ NextInterpolatedPosition = cameraPosition
    /\ NextInterpolatedLookAt = controlsTarget

\* C20: a click that hits no planet leaves the state Idle and changes
\* neither the camera pose nor the stored target, whether a transition was
\* active or not.
C20_EmptyClickStopsWithoutSnap ==
    [][ lastEvent' = "emptyClick"
           => /\ ~isCameraFocusing'
              /\ UNCHANGED << cameraPosition, controlsTarget,
                              cameraTargetPosition, cameraTargetLookAt,
                              focusSpeed >> ]_vars

\* a click on empty space stopped a transition to Jupiter on its way
C20_Witness ==
    /\ lastEvent = "emptyClick"
    /\ interrupts = 1
    /\ age = 0
    /\ CurrentTarget = HitTarget(JupiterHit)
    /\ cameraPosition # cameraTargetPosition
    /\ cameraPosition # CAMERA_INITIAL_POSITION

\* C12: every display refresh runs the body of animate, and with it the
\* camera focus update, exactly once, whatever texture loads, load errors
\* and pause or resume clicks came before.
C12_OneFrameBodyPerRefresh ==
    [][ lastEvent' \in {"focusFrame", "idleFrame"}
           => frameBodies' = 1 ]_vars

\* C13: while the simulation stays paused no event runs the body of
\* animate, and a toggle that resumes it leaves a frame requested.
C13_PausedLoopIsStopped ==
    [][ /\ (isPaused /\ isPaused') => frameBodies' = 0
        /\ (isPaused /\ ~isPaused') => pendingFrames' > 0 ]_vars

\* textures are still loading and no load error has been reported
LoadingInProgress ==
    /\ starfieldPending \/ bodyTexturesPending > 0
    /\ ~errorReported

\* C18: no event runs the body of animate while textures are still loading
\* and no load error has been reported, whatever the user does meanwhile.
C18_NoFrameWhileLoading ==
    [][ LoadingInProgress' => frameBodies' = 0 ]_vars

\* C17: once the planets have been created, an input event on the speed
\* slider of any of the eight planets sets the orbitalSpeedFactor of that
\* planet to the value of the slider.
C17_SliderSetsSpeedFactor ==
    [][ (lastEvent' = "slider" /\ planets = PlanetNames)
           => orbitalSpeedFactor'[lastSlider'.planet]
                 = lastSlider'.value ]_vars

\* C19: a run of initializeSimulationWhenReady, from the load event or
\* from its timer, constructs the simulation and leaves no retry scheduled
\* when THREE and THREE.OrbitControls are both available, and constructs
\* nothing and leaves a retry scheduled when one is missing; at most one
\* simulation is ever constructed, and none while a library is missing.
C19_CreatesOnceWhenBothAvailable ==
    /\ [](instances <= 1)
    /\ [](instances = 1
            => threeAvailable /\ orbitControlsAvailable /\ ~retryPending)
    /\ [][ (lastEvent' \in {"load", "retry"} /\ scriptState = "evaluated")
             => IF threeAvailable /\ orbitControlsAvailable
                THEN instances' = instances + 1 /\ ~retryPending'
                ELSE instances' = instances /\ retryPending' ]_vars

\* the simulation was constructed by a retry, after the retries that
\* found OrbitControls missing
C19_Witness ==
    /\ lastEvent = "retry"
    /\ instances = 1
    /\ retries = MaxRetries
    /\ ~retryPending
    /\ bodyTexturesPending = MaxBodyTextures

\* C14: a frame runs the OrbitControls update, then the camera focus
\* update, then the render and nothing after it; the pose it renders is
\* the pose the camera has after the focus update of that frame.
C14_FrameOrder ==
    [][ lastEvent' \in {"focusFrame", "idleFrame"}
           => /\ frameSteps' = << "controls", "focus", "render" >>
              /\ rendered' = [position |-> cameraPosition',
                              target   |-> controlsTarget'] ]_vars

\* a frame of a transition moved the camera and rendered the new pose
C14_Witness ==
    /\ lastEvent = "focusFrame"
    /\ isCameraFocusing
    /\ age = 1
    /\ rendered.position = cameraPosition
    /\ rendered.position # CAMERA_INITIAL_POSITION
    /\ CurrentTarget = HitTarget(MercuryHit)

\* C15: a frame whose camera focus update fails reports the failure, stops
\* the transition and still renders the pose the camera then has, and the
\* next frame stays requested; a click handler that fails leaves the frame
\* loop as it was, and every frame that follows reaches its render step.
C15_FailureStaysOutOfRenderLoop ==
    [][ /\ lastEvent' = "failedFrame"
              => /\ frameSteps' = << "controls", "focus", "report", "render" >>
                 /\ rendered' = [position |-> cameraPosition',
                                 target   |-> controlsTarget']
                 /\ ~isCameraFocusing'
                 /\ pendingFrames' = pendingFrames
        /\ lastEvent' = "failedClick"
              => UNCHANGED << loopVars, frameVars >>
        /\ lastEvent' \in {"focusFrame", "idleFrame"}
              => /\ frameSteps'[Len(frameSteps')] = "render"
                 /\ rendered' = [position |-> cameraPosition',
                                 target   |-> controlsTarget'] ]_vars

\* the focus update failed after both interpolations, and the frame
\* rendered the interpolated pose
C15_Witness ==
    /\ lastEvent = "failedFrame"
    /\ failures = 1
    /\ ~isCameraFocusing
    /\ rendered.position = cameraPosition
    /\ rendered.target # Origin
    /\ ~PoseWithinThreshold

\* C21: a click that hits a planet of radius r at world position P stores
\* P as the target look-at and P + (2r, 3r, 5r) as the target position and
\* makes the state Transitioning, without moving the camera; the frames
\* that follow leave the stored target as the click computed it.
C21_PlanetClickTarget ==
    [][ /\ lastEvent' = "planetClick"
              => /\ cameraTargetLookAt' = lastHit'.position
                 /\ cameraTargetPosition' =
                       << lastHit'.position[1] + 2 * lastHit'.radius,
                          lastHit'.position[2] + 3 * lastHit'.radius,
                          lastHit'.position[3] + 5 * lastHit'.radius >>
                 /\ isCameraFocusing'
                 /\ UNCHANGED << cameraPosition, controlsTarget >>
        /\ lastEvent' \in {"focusFrame", "idleFrame"}
              => UNCHANGED << cameraTargetPosition,
                              cameraTargetLookAt >> ]_vars

\* frames of a transition to Jupiter have run and the target is still
\* the one computed from the hit
C21_Witness ==
    /\ lastEvent = "focusFrame"
    /\ lastHit = JupiterHit
    /\ lastRequest = "issued"
    /\ age = MaxAge
    /\ isCameraFocusing
    /\ cameraTargetLookAt = JupiterHit.position
    /\ cameraTargetPosition[3] = JupiterHit.position[3] + 5 * JupiterRadius

\* C22: a camera reset, in whatever state it arrives, stores (0,150,300)
\* as the target position and (0,0,0) as the target look-at, makes the
\* state Transitioning, and leaves the camera pose as it was.
C22_ResetTargetsInitialPose ==
    [][ lastEvent' = "resetCamera"
           => /\ cameraTargetPosition' = << 0, 150 * Scale, 300 * Scale >>
              /\ cameraTargetLookAt' = << 0, 0, 0 >>
              /\ isCameraFocusing'
              /\ UNCHANGED << cameraPosition, controlsTarget >> ]_vars

\* a reset arrived during a transition to a planet, with the camera away
\* from the initial position
C22_Witness ==
    /\ lastEvent = "resetCamera"
    /\ retargeted
    /\ discarded = HitTarget(MercuryHit)
    /\ isCameraFocusing
    /\ cameraPosition # CAMERA_INITIAL_POSITION

\* C25: the second of two calls of _toggleAnimation with no event between
\* them leaves isPaused and the number of pending animation frame
\* requests as they were before the first.
C25_TwoTogglesRestore ==
    [][ (lastEvent = "toggle" /\ lastEvent' = "toggle")
           => /\ isPaused' = beforeToggle.isPaused
              /\ pendingFrames' = beforeToggle.pendingFrames ]_vars

\* C23: an update of an unpaused frame advances the orbital angle of every
\* planet by its base orbital speed times its individual speed factor
\* times the global speed factor times deltaTime, also when the individual
\* factor is 0.
C23_AngleAdvance ==
    [][ (lastEvent' = "planetUpdate" /\ ~isPaused)
           => \A p \in planets :
                 currentAngle'[p]
                    = currentAngle[p]
                      + OrbitalSpeed[p] * orbitalSpeedFactor[p]
                        * globalSpeedFactor * lastDelta' ]_vars

\* C24: a call of _updatePlanetPositions while isPaused is true leaves the
\* orbital angle, the orbit group position and the self-rotation of every
\* planet and the rotation of the Sun as they were.
C24_PausedUpdateChangesNothing ==
    [][ (lastEvent' = "planetUpdate" /\ isPaused)
           => UNCHANGED << currentAngle, orbitPosition, meshRotation,
                           sunRotation >> ]_vars

\* updates ran while paused, with planets that had moved before, at a
\* global speed above zero
C24_Witness ==
    /\ lastEvent = "planetUpdate"
    /\ isPaused
    /\ age = MaxAge
    /\ lastDelta = 33
    /\ globalSpeedFactor = 200
    /\ currentAngle["Earth"] = StartAngle
    /\ orbitPosition["Earth"] = PointOnOrbit(45, StartAngle)
====
